---- MODULE Spec2Model ----
(***************************************************************************)
(* Road-tile SVG generators: the port/mask codec, the rotation deriver     *)
(* with its dedup-by-mask, and the start/goal marker generator.            *)
(*                                                                         *)
(* Python strings that are split or concatenated are modelled as "texts":  *)
(* a sequence of pieces, each piece either the delimiter "-" or a          *)
(* delimiter-free string; the Python string is the concatenation of the    *)
(* pieces (Text).  The key "U1U2-R1R2" is <<"U1U2", "-", "R1R2">>.         *)
(***************************************************************************)
EXTENDS Integers, Sequences, FiniteSets, TLC

VARIABLES
    \* generate-using-8bit.py
    pc8,            \* "curve" | "sharp" | "straight" | "done" | "off"
    exc8,           \* "none", or the exception that ended the script
    base8,          \* position in the base dict being iterated (1-based)
    idx8,           \* enumerate() index over (0, 90, 180, 270)
    used_masks,     \* the running call's used_masks set
    written8,       \* write_svg calls so far, in order
    rot8,           \* the ROT_KEYS table in use
    \* generate.py
    pcK,            \* "curve" | "sharp" | "straight" | "check" | "done" | "off"
    baseK,
    idxK,
    writtenK,       \* files written so far, in order
    generated_files_count,
    printedK,       \* warnings and the final message printed so far
    rotK,           \* the rotated_keys_map table in use
    \* generate-using-8bit-start-goal.py
    pcM,            \* "validate" | "start" | "goal" | "done" | "off"
    start_port,
    goal_port,
    marker_files,   \* write_marker_svg calls so far, in order
    printedM,       \* warnings printed by generate_marker_tiles
    \* a single call of a codec function
    call,           \* the function called (fn) and its arguments
    ret             \* Pending, or the call's outcome

vars == <<pc8, exc8, base8, idx8, used_masks, written8, rot8,
          pcK, baseK, idxK, writtenK, generated_files_count, printedK, rotK,
          pcM, start_port, goal_port, marker_files, printedM,
          call, ret>>

road8Vars  == <<pc8, exc8, base8, idx8, used_masks, written8, rot8>>
roadKVars  == <<pcK, baseK, idxK, writtenK, generated_files_count, printedK, rotK>>
markerVars == <<pcM, start_port, goal_port, marker_files, printedM>>
codecVars  == <<call, ret>>

----------------------------------------------------------------------------
(* Bounds of the checked input sets *)

\* longest port list handed to calculate_mask / generate_marker_tile
MaxPorts == 3
\* most pieces in a key handed to key_to_mask
MaxPieces == 5

----------------------------------------------------------------------------
(* Integer and string primitives of the Python code *)

\* mutant: the bits are added instead of or-ed (mask += ...)
BitAdd(a, b) == a + b

\* a | b on non-negative ints
RECURSIVE BitOr(_, _)
BitOr(a, b) ==
    IF a = 0 THEN b
    ELSE IF b = 0 THEN a
    ELSE (IF a % 2 = 1 \/ b % 2 = 1 THEN 1 ELSE 0) + 2 * BitOr(a \div 2, b \div 2)

\* a << n
RECURSIVE Shl(_, _)
Shl(a, n) == IF n = 0 THEN a ELSE Shl(2 * a, n - 1)

HexDigits == <<"0", "1", "2", "3", "4", "5", "6", "7",
               "8", "9", "A", "B", "C", "D", "E", "F">>

RECURSIVE Hex(_)
Hex(n) == IF n < 16 THEN HexDigits[n + 1]
          ELSE Hex(n \div 16) \o HexDigits[(n % 16) + 1]

\* f"{n:02X}"
Format02X(n) == IF n < 16 THEN "0" \o Hex(n) ELSE Hex(n)

\* f"{n}" for a non-negative int
RECURSIVE Dec(_)
Dec(n) == IF n < 10 THEN HexDigits[n + 1]
          ELSE Dec(n \div 10) \o HexDigits[(n % 10) + 1]

\* the Python string a text stands for
RECURSIVE Text(_)
Text(t) == IF t = <<>> THEN "" ELSE Head(t) \o Text(Tail(t))

\* str.split("-"): the maximal delimiter-free runs, empty runs included
RECURSIVE SplitLoop(_, _, _, _)
SplitLoop(t, i, cur, out) ==
    IF i > Len(t) THEN Append(out, cur)
    ELSE IF t[i] = "-" THEN SplitLoop(t, i + 1, "", Append(out, cur))
    ELSE SplitLoop(t, i + 1, cur \o t[i], out)

Split(t) == SplitLoop(t, 1, "", <<>>)

\* sep.join(items)
RECURSIVE Join(_, _)
Join(sep, items) ==
    IF items = <<>> THEN ""
    ELSE IF Len(items) = 1 THEN items[1]
    ELSE items[1] \o sep \o Join(sep, Tail(items))

\* the literal "a-b" as a text
K(a, b) == <<a, "-", b>>

----------------------------------------------------------------------------
(* Port/mask codec of generate-using-8bit.py *)

PAIR_TO_BIT ==
    ("U1U2" :> 0) @@ ("U2U3" :> 1) @@
    ("R1R2" :> 2) @@ ("R2R3" :> 3) @@
    ("D2D3" :> 4) @@ ("D1D2" :> 5) @@
    ("L2L3" :> 6) @@ ("L1L2" :> 7)

\* mutant: an unknown pair is skipped, as calculate_mask skips unknown ports
RECURSIVE key_to_mask_lenient(_, _, _)
key_to_mask_lenient(pairs, i, mask) ==
    IF i > Len(pairs) THEN [raised |-> FALSE, mask |-> mask]
    ELSE key_to_mask_lenient(pairs, i + 1,
            IF pairs[i] \in DOMAIN PAIR_TO_BIT
            THEN BitOr(mask, Shl(1, PAIR_TO_BIT[pairs[i]]))
            ELSE mask)

\* the for loop of key_to_mask from token i on; the KeyError of an unknown
\* pair is re-raised as ValueError and ends the loop
RECURSIVE key_to_mask_loop(_, _, _)
key_to_mask_loop(pairs, i, mask) ==
    IF i > Len(pairs) THEN [raised |-> FALSE, mask |-> mask]
    ELSE IF pairs[i] \notin DOMAIN PAIR_TO_BIT
         THEN [raised |-> TRUE, error |-> "ValueError", pair |-> pairs[i]]
         ELSE key_to_mask_loop(pairs, i + 1,
                               BitOr(mask, Shl(1, PAIR_TO_BIT[pairs[i]])))

key_to_mask(key) == key_to_mask_loop(Split(key), 1, 0)

----------------------------------------------------------------------------
(* Port/mask codec of generate-using-8bit-start-goal.py *)

\* mutant: W0 given the bit of W1
PORT_TO_BIT_Shared ==
    ("N0" :> 0) @@ ("N1" :> 1) @@
    ("E0" :> 2) @@ ("E1" :> 3) @@
    ("S1" :> 4) @@ ("S0" :> 5) @@
    ("W1" :> 6) @@ ("W0" :> 6)

PORT_TO_BIT ==
    ("N0" :> 0) @@ ("N1" :> 1) @@
    ("E0" :> 2) @@ ("E1" :> 3) @@
    ("S1" :> 4) @@ ("S0" :> 5) @@
    ("W1" :> 6) @@ ("W0" :> 7)

PORT_TO_MASK == [port \in DOMAIN PORT_TO_BIT |-> Shl(1, PORT_TO_BIT[port])]

\* the for loop of calculate_mask from port i on
RECURSIVE calculate_mask_loop(_, _, _)
calculate_mask_loop(ports, i, mask) ==
    IF i > Len(ports) THEN mask
    ELSE calculate_mask_loop(ports, i + 1,
            IF ports[i] \in DOMAIN PORT_TO_MASK
            THEN BitOr(mask, PORT_TO_MASK[ports[i]])
            ELSE mask)

calculate_mask(ports) == calculate_mask_loop(ports, 1, 0)

\* what generate_marker_tile hands to write_marker_svg
generate_marker_tile(tile_type, ports) ==
    LET mask == calculate_mask(ports) IN
    IF tile_type = "start"
    THEN [filename |-> "road-tile-marker-start-" \o Format02X(mask) \o ".svg",
          desc     |-> "Start marker tile, ports=[" \o Join(",", ports)
                           \o "], mask=0x" \o Format02X(mask),
          ports    |-> ports,
          content  |-> "START_CONTENT"]
    ELSE [filename |-> "road-tile-marker-goal-" \o Format02X(mask) \o ".svg",
          desc     |-> "Goal marker tile, ports=[" \o Join(",", ports)
                           \o "], mask=0x" \o Format02X(mask),
          ports    |-> ports,
          content  |-> "GOAL_CONTENT"]

----------------------------------------------------------------------------
(* Tables of generate-using-8bit.py; a dict is the sequence of its items in *)
(* declaration order, which is the order .items() iterates in               *)

curve_paths_base == <<
    [key   |-> K("U1U2", "R1R2"),
     outer |-> "M 10 0 L 10 10 C 10 15.5 14.5 20 20 20 L 40 20",
     inner |-> "M 20 0 L 20 5 C 20 7.8 22.2 10 25 10 L 40 10"],
    [key   |-> K("U1U2", "R2R3"),
     outer |-> "M 10 0 L 10 20 C 10 25.5 14.5 30 20 30 L 40 30",
     inner |-> "M 20 0 L 20 15 C 20 17.8 22.2 20 25 20 L 40 20"],
    [key   |-> K("U2U3", "R1R2"),
     outer |-> "M 20 0 L 20 10 C 20 15.5 24.5 20 30 20 L 40 20",
     inner |-> "M 30 0 L 30 5 C 30 7.8 32.2 10 35 10 L 40 10"],
    [key   |-> K("U2U3", "R2R3"),
     outer |-> "M 20 0 L 20 20 C 20 25.5 24.5 30 30 30 L 40 30",
     inner |-> "M 30 0 L 30 15 C 30 17.8 32.2 20 35 20 L 40 20"] >>

sharp_paths_base == <<
    [key |-> K("U1U2", "R1R2"), outer |-> "M 10 0 L 10 20 L 40 20", inner |-> "M 20 0 L 20 10 L 40 10"],
    [key |-> K("U1U2", "R2R3"), outer |-> "M 10 0 L 10 30 L 40 30", inner |-> "M 20 0 L 20 20 L 40 20"],
    [key |-> K("U2U3", "R1R2"), outer |-> "M 20 0 L 20 20 L 40 20", inner |-> "M 30 0 L 30 10 L 40 10"],
    [key |-> K("U2U3", "R2R3"), outer |-> "M 20 0 L 20 30 L 40 30", inner |-> "M 30 0 L 30 20 L 40 20"] >>

straight_paths == <<
    [key |-> K("L2L3", "R2R3"), outer |-> "M 0 20 L 40 20", inner |-> "M 0 30 L 40 30"],
    [key |-> K("R2R3", "L2L3"), outer |-> "M 40 20 L 0 20", inner |-> "M 40 30 L 0 30"],
    [key |-> K("U2U3", "D2D3"), outer |-> "M 20 0 L 20 40", inner |-> "M 30 0 L 30 40"],
    [key |-> K("D2D3", "U2U3"), outer |-> "M 20 40 L 20 0", inner |-> "M 30 40 L 30 0"] >>

ROT_KEYS ==
    (K("U1U2", "R1R2") :> <<K("R1R2", "D1D2"), K("D1D2", "L1L2"), K("L1L2", "U1U2")>>) @@
    (K("U1U2", "R2R3") :> <<K("R1R2", "D2D3"), K("D1D2", "L2L3"), K("L1L2", "U2U3")>>) @@
    (K("U2U3", "R1R2") :> <<K("R2R3", "D1D2"), K("D2D3", "L1L2"), K("L2L3", "U1U2")>>) @@
    (K("U2U3", "R2R3") :> <<K("R2R3", "D2D3"), K("D2D3", "L2L3"), K("L2L3", "U2U3")>>)

\* the first and the last point of a path's data: the two points where the
\* lane boundary meets the border of the 40 x 40 tile
PathEnds(d) ==
    CASE d = "M 10 0 L 10 10 C 10 15.5 14.5 20 20 20 L 40 20" -> <<<<10, 0>>, <<40, 20>>>>
      [] d = "M 20 0 L 20 5 C 20 7.8 22.2 10 25 10 L 40 10"   -> <<<<20, 0>>, <<40, 10>>>>
      [] d = "M 10 0 L 10 20 C 10 25.5 14.5 30 20 30 L 40 30" -> <<<<10, 0>>, <<40, 30>>>>
      [] d = "M 20 0 L 20 15 C 20 17.8 22.2 20 25 20 L 40 20" -> <<<<20, 0>>, <<40, 20>>>>
      [] d = "M 20 0 L 20 10 C 20 15.5 24.5 20 30 20 L 40 20" -> <<<<20, 0>>, <<40, 20>>>>
      [] d = "M 30 0 L 30 5 C 30 7.8 32.2 10 35 10 L 40 10"   -> <<<<30, 0>>, <<40, 10>>>>
      [] d = "M 20 0 L 20 20 C 20 25.5 24.5 30 30 30 L 40 30" -> <<<<20, 0>>, <<40, 30>>>>
      [] d = "M 30 0 L 30 15 C 30 17.8 32.2 20 35 20 L 40 20" -> <<<<30, 0>>, <<40, 20>>>>
      [] d = "M 10 0 L 10 20 L 40 20" -> <<<<10, 0>>, <<40, 20>>>>
      [] d = "M 20 0 L 20 10 L 40 10" -> <<<<20, 0>>, <<40, 10>>>>
      [] d = "M 10 0 L 10 30 L 40 30" -> <<<<10, 0>>, <<40, 30>>>>
      [] d = "M 20 0 L 20 20 L 40 20" -> <<<<20, 0>>, <<40, 20>>>>
      [] d = "M 30 0 L 30 10 L 40 10" -> <<<<30, 0>>, <<40, 10>>>>
      [] d = "M 20 0 L 20 30 L 40 30" -> <<<<20, 0>>, <<40, 30>>>>
      [] d = "M 30 0 L 30 20 L 40 20" -> <<<<30, 0>>, <<40, 20>>>>
      [] d = "M 0 20 L 40 20" -> <<<<0, 20>>, <<40, 20>>>>
      [] d = "M 0 30 L 40 30" -> <<<<0, 30>>, <<40, 30>>>>
      [] d = "M 40 20 L 0 20" -> <<<<40, 20>>, <<0, 20>>>>
      [] d = "M 40 30 L 0 30" -> <<<<40, 30>>, <<0, 30>>>>
      [] d = "M 20 0 L 20 40" -> <<<<20, 0>>, <<20, 40>>>>
      [] d = "M 30 0 L 30 40" -> <<<<30, 0>>, <<30, 40>>>>
      [] d = "M 20 40 L 20 0" -> <<<<20, 40>>, <<20, 0>>>>
      [] d = "M 30 40 L 30 0" -> <<<<30, 40>>, <<30, 0>>>>

\* the tuple both scripts enumerate
ANGLES == <<0, 90, 180, 270>>

----------------------------------------------------------------------------
(* Tables of generate.py *)

keyed_curve_paths_base == <<
    [key   |-> K("U1U2", "R1R2"),
     outer |-> "M 10 0 L 10 10 C 10 15.5 14.5 20 20 20 L 40 20",
     inner |-> "M 20 0 L 20 5 C 20 7.8 22.2 10 25 10 L 40 10"],
    [key   |-> K("U1U2", "R2R3"),
     outer |-> "M 10 0 L 10 20 C 10 25.5 14.5 30 20 30 L 40 30",
     inner |-> "M 20 0 L 20 15 C 20 17.8 22.2 20 25 20 L 40 20"],
    [key   |-> K("U2U3", "R1R2"),
     outer |-> "M 20 0 L 20 10 C 20 15.5 24.5 20 30 20 L 40 20",
     inner |-> "M 30 0 L 30 5 C 30 7.8 32.2 10 35 10 L 40 10"],
    [key   |-> K("U2U3", "R2R3"),
     outer |-> "M 20 0 L 20 20 C 20 25.5 24.5 30 30 30 L 40 30",
     inner |-> "M 30 0 L 30 15 C 30 17.8 32.2 20 35 20 L 40 20"] >>

keyed_sharp_paths_base == <<
    [key |-> K("U1U2", "R1R2"), outer |-> "M 10 0 L 10 20 L 40 20", inner |-> "M 20 0 L 20 10 L 40 10"],
    [key |-> K("U1U2", "R2R3"), outer |-> "M 10 0 L 10 30 L 40 30", inner |-> "M 20 0 L 20 20 L 40 20"],
    [key |-> K("U2U3", "R1R2"), outer |-> "M 20 0 L 20 20 L 40 20", inner |-> "M 30 0 L 30 10 L 40 10"],
    [key |-> K("U2U3", "R2R3"), outer |-> "M 20 0 L 20 30 L 40 30", inner |-> "M 30 0 L 30 20 L 40 20"] >>

keyed_straight_paths == <<
    [key |-> K("L2L3", "R2R3"), outer |-> "M 0 20 L 40 20", inner |-> "M 0 30 L 40 30"],
    [key |-> K("R2R3", "L2L3"), outer |-> "M 40 20 L 0 20", inner |-> "M 40 30 L 0 30"],
    [key |-> K("U2U3", "D2D3"), outer |-> "M 20 0 L 20 40", inner |-> "M 30 0 L 30 40"],
    [key |-> K("D2D3", "U2U3"), outer |-> "M 20 40 L 20 0", inner |-> "M 30 40 L 30 0"] >>

rotated_keys_map ==
    (K("U1U2", "R1R2") :> <<K("R1R2", "D1D2"), K("D1D2", "L1L2"), K("L1L2", "U1U2")>>) @@
    (K("U1U2", "R2R3") :> <<K("R1R2", "D2D3"), K("D1D2", "L2L3"), K("L1L2", "U2U3")>>) @@
    (K("U2U3", "R1R2") :> <<K("R2R3", "D1D2"), K("D2D3", "L1L2"), K("L2L3", "U1U2")>>) @@
    (K("U2U3", "R2R3") :> <<K("R2R3", "D2D3"), K("D2D3", "L2L3"), K("L2L3", "U2U3")>>)

----------------------------------------------------------------------------
(* generate-using-8bit.py: gen_rot_tiles and the straight loop *)

base_dict8(tile_type) ==
    IF tile_type = "curve" THEN curve_paths_base
    ELSE IF tile_type = "sharp" THEN sharp_paths_base
    ELSE straight_paths

\* mutant: the table is indexed by idx instead of idx - 1
RotKey8Unshifted(rot, base_key, idx) ==
    IF ANGLES[idx + 1] = 0 THEN [raised |-> FALSE, key |-> base_key]
    ELSE IF base_key \notin DOMAIN rot
         THEN [raised |-> TRUE, error |-> "KeyError"]
    ELSE IF idx >= Len(rot[base_key])
         THEN [raised |-> TRUE, error |-> "IndexError"]
    ELSE [raised |-> FALSE, key |-> rot[base_key][idx + 1]]

\* key = base_key if angle == 0 else ROT_KEYS[base_key][idx - 1]
\* (a missing base key raises KeyError, a short list IndexError)
RotKey8(rot, base_key, idx) ==
    IF ANGLES[idx + 1] = 0 THEN [raised |-> FALSE, key |-> base_key]
    ELSE IF base_key \notin DOMAIN rot
         THEN [raised |-> TRUE, error |-> "KeyError"]
    ELSE IF idx - 1 >= Len(rot[base_key])
         THEN [raised |-> TRUE, error |-> "IndexError"]
    ELSE [raised |-> FALSE, key |-> rot[base_key][(idx - 1) + 1]]

\* mutant: the membership test never hits (used_masks is not consulted)
SeenNever(mask, used) == FALSE

\* if mask in used_masks
Seen(mask, used) == mask \in used

\* mutant: one used_masks set shared by all families
KeptMasks(used) == used

\* used_masks: Set[int] = set(), at the start of each family's pass
FreshMasks(used) == {}

\* "" if angle == 0 else f' transform="rotate({angle} 20 20)"'
Transform8(angle) ==
    IF angle = 0 THEN ""
    ELSE " transform=\"rotate(" \o Dec(angle) \o " 20 20)\""

\* the arguments of one write_svg call, with the locals they were built from
Svg8(tile_type, key, mask, paths, angle) ==
    [fname     |-> "road-tile-" \o tile_type \o "-" \o Format02X(mask) \o ".svg",
     desc      |-> tile_type \o " tile, key=" \o Text(key)
                       \o ", mask=0x" \o Format02X(mask),
     outer     |-> paths.outer,
     inner     |-> paths.inner,
     transform |-> Transform8(angle),
     tile_type |-> tile_type,
     key       |-> key,
     mask      |-> mask,
     angle     |-> angle]

\* the family run after tile_type by __main__
After8(tile_type) ==
    IF tile_type = "curve" THEN "sharp"
    ELSE IF tile_type = "sharp" THEN "straight"
    ELSE "done"

\* used_masks: Set[int] = set(): the first statement of gen_rot_tiles, and
\* the statement before the straight loop (base8 = 0: the pass has not begun)
BeginPass8 ==
    /\ pc8 \in {"curve", "sharp", "straight"}
    /\ exc8 = "none"
    /\ base8 = 0
    /\ used_masks' = FreshMasks(used_masks)
    /\ base8' = 1
    /\ idx8' = 0
    /\ UNCHANGED <<pc8, exc8, written8, rot8, roadKVars, markerVars, codecVars>>

\* the key of the candidate the loops are at (the straight loop takes the
\* dict key itself)
Candidate8 ==
    IF pc8 = "straight"
    THEN [raised |-> FALSE, key |-> straight_paths[base8].key]
    ELSE RotKey8(rot8, base_dict8(pc8)[base8].key, idx8)

\* one iteration of the inner loop of gen_rot_tiles: a candidate
\* (base_key, angle) is written unless its mask was used before
GenRotTiles8 ==
    /\ pc8 \in {"curve", "sharp"}
    /\ exc8 = "none"
    /\ base8 >= 1
    /\ ~Candidate8.raised
    /\ LET paths == base_dict8(pc8)[base8]
           angle == ANGLES[idx8 + 1]
           key   == Candidate8.key
           km    == key_to_mask(key)
       IN  /\ ~km.raised
           /\ IF Seen(km.mask, used_masks)
              THEN UNCHANGED <<written8, used_masks>>
              ELSE /\ used_masks' = used_masks \cup {km.mask}
                   /\ written8' = Append(written8,
                                     Svg8(pc8, key, km.mask, paths, angle))
    /\ IF idx8 < 3
       THEN /\ idx8' = idx8 + 1
            /\ UNCHANGED <<base8, pc8>>
       ELSE /\ idx8' = 0
            /\ IF base8 < Len(base_dict8(pc8))
               THEN base8' = base8 + 1 /\ pc8' = pc8
               ELSE base8' = 0 /\ pc8' = After8(pc8)
    /\ UNCHANGED <<exc8, rot8, roadKVars, markerVars, codecVars>>

\* one iteration of the straight loop of __main__
GenStraight8 ==
    /\ pc8 = "straight"
    /\ exc8 = "none"
    /\ base8 >= 1
    /\ LET paths == straight_paths[base8]
           km    == key_to_mask(paths.key)
       IN  /\ ~km.raised
           /\ IF Seen(km.mask, used_masks)
              THEN UNCHANGED <<written8, used_masks>>
              ELSE /\ used_masks' = used_masks \cup {km.mask}
                   /\ written8' = Append(written8,
                                     Svg8("straight", paths.key, km.mask, paths, 0))
    /\ IF base8 < Len(straight_paths)
       THEN base8' = base8 + 1 /\ pc8' = pc8
       ELSE base8' = base8 /\ pc8' = After8(pc8)
    /\ UNCHANGED <<exc8, idx8, rot8, roadKVars, markerVars, codecVars>>

\* the rotation lookup (KeyError, IndexError) or key_to_mask (ValueError)
\* raises: nothing catches it and the script ends with a traceback
Raise8 ==
    /\ pc8 \in {"curve", "sharp", "straight"}
    /\ exc8 = "none"
    /\ base8 >= 1
    /\ IF Candidate8.raised THEN exc8' = Candidate8.error
       ELSE /\ key_to_mask(Candidate8.key).raised
            /\ exc8' = key_to_mask(Candidate8.key).error
    /\ UNCHANGED <<pc8, base8, idx8, used_masks, written8, rot8,
                   roadKVars, markerVars, codecVars>>

----------------------------------------------------------------------------
(* generate.py: generate_rotated_tiles, the straight loop, the count check *)

base_pathsK(tile_type) ==
    IF tile_type = "curve" THEN keyed_curve_paths_base
    ELSE IF tile_type = "sharp" THEN keyed_sharp_paths_base
    ELSE keyed_straight_paths

\* the if / elif / else that determines tile_key; the else branch prints a
\* warning and continues with the next angle
RotKeyK(rot, base_key, i) ==
    IF ANGLES[i + 1] = 0 THEN [found |-> TRUE, key |-> base_key]
    ELSE IF base_key \in DOMAIN rot /\ i - 1 < Len(rot[base_key])
         THEN [found |-> TRUE, key |-> rot[base_key][(i - 1) + 1]]
    ELSE [found |-> FALSE,
          warning |-> "Warning: Rotated key mapping not found for "
                          \o Text(base_key) \o " at " \o Dec(ANGLES[i + 1]) \o " deg."]

\* mutant: the rotate arguments are separated by commas
TransformKCommas(angle) ==
    IF angle = 0 THEN ""
    ELSE " transform=\"rotate(" \o Dec(angle) \o ", 20, 20)\""

TransformK(angle) ==
    IF angle = 0 THEN ""
    ELSE " transform=\"rotate(" \o Dec(angle) \o " 20 20)\""

\* dir_map_full of get_description
dir_map_full == ("U" :> "Upper") @@ ("R" :> "Right") @@ ("D" :> "Bottom") @@ ("L" :> "Left")

\* a range literal of pair_range_map, '(X:10-20)' being [axis "X", lo 10, hi 20]
Range(axis, lo, hi) == [axis |-> axis, lo |-> lo, hi |-> hi]

\* the string a range literal stands for
RangeText(r) == "(" \o r.axis \o ":" \o Dec(r.lo) \o "-" \o Dec(r.hi) \o ")"

\* pair_range_map of get_description
pair_range_map ==
    ("U1U2" :> Range("X", 10, 20)) @@ ("U2U3" :> Range("X", 20, 30)) @@
    ("R1R2" :> Range("Y", 10, 20)) @@ ("R2R3" :> Range("Y", 20, 30)) @@
    ("D1D2" :> Range("X", 10, 20)) @@ ("D2D3" :> Range("X", 20, 30)) @@
    ("L1L2" :> Range("Y", 10, 20)) @@ ("L2L3" :> Range("Y", 20, 30))

\* pair[0] for the pair names the tables use (any other pair has a first
\* character outside dir_map_full in the keys the scripts declare)
FirstChar(pair) ==
    IF pair \in {"U1U2", "U2U3"} THEN "U"
    ELSE IF pair \in {"R1R2", "R2R3"} THEN "R"
    ELSE IF pair \in {"D1D2", "D2D3"} THEN "D"
    ELSE IF pair \in {"L1L2", "L2L3"} THEN "L"
    ELSE "?"

\* tile_type.capitalize() for the three tile types
Capitalize(tile_type) ==
    IF tile_type = "curve" THEN "Curve"
    ELSE IF tile_type = "sharp" THEN "Sharp"
    ELSE "Straight"

get_description(tile_key, tile_type) ==
    LET parts == Split(tile_key) IN
    IF Len(parts) # 2 THEN Capitalize(tile_type) \o " tile"
    ELSE LET entry_pair  == parts[1]
             exit_pair   == parts[2]
             entry_dir   == IF FirstChar(entry_pair) \in DOMAIN dir_map_full
                            THEN dir_map_full[FirstChar(entry_pair)] ELSE "Unknown"
             exit_dir    == IF FirstChar(exit_pair) \in DOMAIN dir_map_full
                            THEN dir_map_full[FirstChar(exit_pair)] ELSE "Unknown"
             entry_range == IF entry_pair \in DOMAIN pair_range_map
                            THEN RangeText(pair_range_map[entry_pair]) ELSE "(Unknown)"
             exit_range  == IF exit_pair \in DOMAIN pair_range_map
                            THEN RangeText(pair_range_map[exit_pair]) ELSE "(Unknown)"
         IN  Capitalize(tile_type) \o " tile: Entry " \o entry_dir \o " " \o entry_range
                 \o ", Exit " \o exit_dir \o " " \o exit_range

\* one written file, with the locals it was built from
SvgK(tile_type, tile_key, path_data, angle) ==
    [filename       |-> "road-tile-" \o tile_type \o "-" \o Text(tile_key) \o ".svg",
     description    |-> get_description(tile_key, tile_type),
     path_outer     |-> path_data.outer,
     path_inner     |-> path_data.inner,
     transform_attr |-> TransformK(angle),
     tile_type      |-> tile_type,
     key            |-> tile_key,
     angle          |-> angle]

AfterK(tile_type) ==
    IF tile_type = "curve" THEN "sharp"
    ELSE IF tile_type = "sharp" THEN "straight"
    ELSE "check"

\* one iteration of the inner loop of generate_rotated_tiles
GenerateRotatedTilesK ==
    /\ pcK \in {"curve", "sharp"}
    /\ LET path_data == base_pathsK(pcK)[baseK]
           angle     == ANGLES[idxK + 1]
           rk        == RotKeyK(rotK, path_data.key, idxK)
       IN  IF rk.found
           THEN /\ writtenK' = Append(writtenK, SvgK(pcK, rk.key, path_data, angle))
                /\ generated_files_count' = generated_files_count + 1
                /\ printedK' = printedK
           ELSE /\ printedK' = Append(printedK, rk.warning)
                /\ UNCHANGED <<writtenK, generated_files_count>>
    /\ IF idxK < 3
       THEN /\ idxK' = idxK + 1
            /\ UNCHANGED <<baseK, pcK>>
       ELSE /\ idxK' = 0
            /\ IF baseK < Len(base_pathsK(pcK))
               THEN baseK' = baseK + 1 /\ pcK' = pcK
               ELSE baseK' = 1 /\ pcK' = AfterK(pcK)
    /\ UNCHANGED <<rotK, road8Vars, markerVars, codecVars>>

\* one iteration of the module-level straight loop
GenerateStraightK ==
    /\ pcK = "straight"
    /\ LET path_data == keyed_straight_paths[baseK] IN
       /\ writtenK' = Append(writtenK, SvgK("straight", path_data.key, path_data, 0))
       /\ generated_files_count' = generated_files_count + 1
    /\ IF baseK < Len(keyed_straight_paths)
       THEN baseK' = baseK + 1 /\ pcK' = pcK
       ELSE baseK' = baseK /\ pcK' = "check"
    /\ UNCHANGED <<idxK, printedK, rotK, road8Vars, markerVars, codecVars>>

\* the file count generate.py expects
ExpectedFilesK == 36

\* the verification message at the end of generate.py
CountCheckK ==
    /\ pcK = "check"
    /\ printedK' = Append(printedK,
           IF generated_files_count = ExpectedFilesK
           THEN "Generated 16 curve, 16 sharp, and 4 straight (central lanes only) tiles as expected."
           ELSE "Warning: Expected 36 files (16 curve + 16 sharp + 4 straight), but generated "
                    \o Dec(generated_files_count) \o ".")
    /\ pcK' = "done"
    /\ UNCHANGED <<baseK, idxK, writtenK, generated_files_count, rotK,
                   road8Vars, markerVars, codecVars>>

----------------------------------------------------------------------------
(* generate-using-8bit-start-goal.py: generate_marker_tiles *)

\* mutant: the start port is used as given
StartPortUnchecked(port) == port

\* if start_port not in PORT_TO_MASK: start_port = "E0"
StartPortOrDefault(port) == IF port \notin DOMAIN PORT_TO_MASK THEN "E0" ELSE port

\* if goal_port not in PORT_TO_MASK: goal_port = "W0"
GoalPortOrDefault(port) == IF port \notin DOMAIN PORT_TO_MASK THEN "W0" ELSE port

\* the two validity checks, each printing a warning when it substitutes
ValidatePortsM ==
    /\ pcM = "validate"
    /\ start_port' = StartPortOrDefault(start_port)
    /\ goal_port' = GoalPortOrDefault(goal_port)
    /\ printedM' = printedM
           \o (IF start_port \notin DOMAIN PORT_TO_MASK
               THEN <<[warning |-> "start", port |-> start_port]>> ELSE <<>>)
           \o (IF goal_port \notin DOMAIN PORT_TO_MASK
               THEN <<[warning |-> "goal", port |-> goal_port]>> ELSE <<>>)
    /\ pcM' = "start"
    /\ UNCHANGED <<marker_files, road8Vars, roadKVars, codecVars>>

\* the call has not returned
Pending == [pending |-> TRUE]

\* start_file = generate_marker_tile("start", [start_port])
GenerateStartM ==
    /\ pcM = "start"
    /\ marker_files' = Append(marker_files, generate_marker_tile("start", <<start_port>>))
    /\ pcM' = "goal"
    /\ UNCHANGED <<start_port, goal_port, printedM, road8Vars, roadKVars, codecVars>>

\* goal_file = generate_marker_tile("goal", [goal_port]), and the return of
\* (start_file, goal_file)
GenerateGoalM ==
    /\ pcM = "goal"
    /\ marker_files' = Append(marker_files, generate_marker_tile("goal", <<goal_port>>))
    /\ ret' = [start_file |-> marker_files[1].filename,
               goal_file  |-> generate_marker_tile("goal", <<goal_port>>).filename]
    /\ pcM' = "done"
    /\ UNCHANGED <<start_port, goal_port, printedM, call, road8Vars, roadKVars>>

----------------------------------------------------------------------------
(* A single call of a codec function on a given argument *)

CallCalculateMask ==
    /\ ret = Pending
    /\ call.fn = "calculate_mask"
    /\ ret' = [mask |-> calculate_mask(call.ports)]
    /\ UNCHANGED <<call, road8Vars, roadKVars, markerVars>>

CallKeyToMask ==
    /\ ret = Pending
    /\ call.fn = "key_to_mask"
    /\ ret' = key_to_mask(call.key)
    /\ UNCHANGED <<call, road8Vars, roadKVars, markerVars>>

CallGenerateMarkerTile ==
    /\ ret = Pending
    /\ call.fn = "generate_marker_tile"
    /\ LET f == generate_marker_tile(call.tile_type, call.ports) IN
       /\ marker_files' = Append(marker_files, f)
       /\ ret' = [filename |-> f.filename]
    /\ UNCHANGED <<call, pcM, start_port, goal_port, printedM, road8Vars, roadKVars>>

----------------------------------------------------------------------------
(* Input sets *)

\* strings a caller may pass as --start / --goal
PortInputs == DOMAIN PORT_TO_BIT \cup {"Z9", "", "e0", "U1U2"}

\* port names of the lists handed to calculate_mask
PortNames == DOMAIN PORT_TO_BIT \cup {"Z9"}

PortLists == UNION {[1..n -> PortNames] : n \in 0..MaxPorts}

\* pieces the keys handed to key_to_mask are made of ("U1" \o "U2" is a pair)
KeyPieces == {"-", "L2L3", "R2R3", "U1", "U2", "Z9"}

Keys == UNION {[1..n -> KeyPieces] : n \in 0..MaxPieces}

\* the table t without an entry for base key b
Without(t, b) == [k \in DOMAIN t \ {b} |-> t[k]]

\* the table t with only the first n derived keys of base key b
Truncated(t, b, n) == [t EXCEPT ![b] = SubSeq(t[b], 1, n)]

\* the declared rotation table and its incomplete variants
RotTables(t) ==
    {t} \cup {Without(t, b) : b \in DOMAIN t}
        \cup {Truncated(t, b, n) : b \in DOMAIN t, n \in 0..2}

----------------------------------------------------------------------------
(* Specifications *)

Road8Start(t) ==
    /\ pc8 = "curve" /\ exc8 = "none" /\ base8 = 0 /\ idx8 = 0
    /\ used_masks = {} /\ written8 = <<>> /\ rot8 = t

Road8Off ==
    /\ pc8 = "off" /\ exc8 = "none" /\ base8 = 0 /\ idx8 = 0
    /\ used_masks = {} /\ written8 = <<>> /\ rot8 = ROT_KEYS

RoadKStart(t) ==
    /\ pcK = "curve" /\ baseK = 1 /\ idxK = 0
    /\ writtenK = <<>> /\ generated_files_count = 0 /\ printedK = <<>> /\ rotK = t

RoadKOff ==
    /\ pcK = "off" /\ baseK = 1 /\ idxK = 0
    /\ writtenK = <<>> /\ generated_files_count = 0 /\ printedK = <<>>
    /\ rotK = rotated_keys_map

MarkerOff ==
    /\ pcM = "off" /\ start_port = "E0" /\ goal_port = "W0"
    /\ marker_files = <<>> /\ printedM = <<>>

CodecOff == call = [fn |-> "none"] /\ ret = Pending

\* both road-tile scripts run, each from its first statement, with the
\* tables they declare
Init ==
    /\ Road8Start(ROT_KEYS)
    /\ RoadKStart(rotated_keys_map)
    /\ MarkerOff
    /\ CodecOff

Next ==
    \/ BeginPass8
    \/ GenRotTiles8
    \/ GenStraight8
    \/ GenerateRotatedTilesK
    \/ GenerateStraightK
    \/ CountCheckK

Spec == Init /\ [][Next]_vars

\* both road-tile scripts run with a rotation table that may lack entries
InitTable ==
    /\ \E t \in RotTables(ROT_KEYS) : Road8Start(t) /\ RoadKStart(t)
    /\ MarkerOff
    /\ CodecOff

NextTable ==
    \/ BeginPass8
    \/ GenRotTiles8
    \/ GenStraight8
    \/ Raise8
    \/ GenerateRotatedTilesK
    \/ GenerateStraightK
    \/ CountCheckK

SpecTable == InitTable /\ [][NextTable]_vars

\* generate_marker_tiles(start_port, goal_port) on any pair of input strings
InitMarker ==
    /\ call \in [fn : {"generate_marker_tiles"},
                 start_port : PortInputs, goal_port : PortInputs]
    /\ ret = Pending
    /\ pcM = "validate"
    /\ start_port = call.start_port
    /\ goal_port = call.goal_port
    /\ marker_files = <<>> /\ printedM = <<>>
    /\ Road8Off /\ RoadKOff

NextMarker ==
    \/ ValidatePortsM
    \/ GenerateStartM
    \/ GenerateGoalM

SpecMarker == InitMarker /\ [][NextMarker]_vars

\* one call of calculate_mask, key_to_mask or generate_marker_tile
InitCodec ==
    /\ call \in [fn : {"calculate_mask"}, ports : PortLists]
            \cup [fn : {"key_to_mask"}, key : Keys]
            \cup [fn : {"generate_marker_tile"}, tile_type : {"start", "goal"},
                  ports : PortLists]
    /\ ret = Pending
    /\ Road8Off /\ RoadKOff /\ MarkerOff

NextCodec ==
    \/ CallCalculateMask
    \/ CallKeyToMask
    \/ CallGenerateMarkerTile

SpecCodec == InitCodec /\ [][NextCodec]_vars

----------------------------------------------------------------------------
(* Claims about the 8-bit generator's dedup-by-mask *)

\* the candidates of a family in iteration order: base keys in declared
\* order and, for curve and sharp, the angles 0, 90, 180, 270 of each
CandidatesOf(tile_type) ==
    IF tile_type = "straight"
    THEN [n \in 1..Len(straight_paths) |->
            [key |-> straight_paths[n].key, angle |-> 0,
             outer |-> straight_paths[n].outer, inner |-> straight_paths[n].inner]]
    ELSE [n \in 1..(4 * Len(base_dict8(tile_type))) |->
            LET b == base_dict8(tile_type)[((n - 1) \div 4) + 1]
                a == (n - 1) % 4
            IN  [key |-> IF a = 0 THEN b.key ELSE ROT_KEYS[b.key][a],
                 angle |-> 90 * a, outer |-> b.outer, inner |-> b.inner]]

FamilyRank(tile_type) ==
    IF tile_type = "curve" THEN 1
    ELSE IF tile_type = "sharp" THEN 2
    ELSE IF tile_type = "straight" THEN 3
    ELSE 4

\* how many candidates of a family the 8-bit generator has gone through
Processed8(tile_type) ==
    IF pc8 = "off" \/ FamilyRank(tile_type) > FamilyRank(pc8) THEN 0
    ELSE IF FamilyRank(tile_type) < FamilyRank(pc8) THEN Len(CandidatesOf(tile_type))
    ELSE IF base8 = 0 THEN 0
    ELSE IF tile_type = "straight" THEN base8 - 1
    ELSE 4 * (base8 - 1) + idx8

Written8Of(tile_type) == {i \in DOMAIN written8 : written8[i].tile_type = tile_type}

\* the mask a candidate's key stands for, by the documented bit layout
\* (bit 0 U1U2, 1 U2U3, 2 R1R2, 3 R2R3, 4 D2D3, 5 D1D2, 6 L2L3, 7 L1L2)
LayoutMask(key) ==
    LET bit == ("U1U2" :> 1) @@ ("U2U3" :> 2) @@ ("R1R2" :> 4) @@ ("R2R3" :> 8) @@
               ("D2D3" :> 16) @@ ("D1D2" :> 32) @@ ("L2L3" :> 64) @@ ("L1L2" :> 128)
    IN  IF key[1] = key[3] THEN bit[key[1]] ELSE bit[key[1]] + bit[key[3]]

C1_DistinctMasks ==
    \A i, j \in DOMAIN written8 :
        (i # j /\ written8[i].tile_type = written8[j].tile_type)
            => /\ written8[i].mask # written8[j].mask
               /\ written8[i].fname # written8[j].fname

C1_WriteOnlyUnseen ==
    (written8' # written8) =>
        /\ Len(written8') = Len(written8) + 1
        /\ SubSeq(written8', 1, Len(written8)) = written8
        /\ LET f == written8'[Len(written8')] IN
           /\ f.mask \notin used_masks
           /\ f.mask \in used_masks'
           /\ \A i \in Written8Of(f.tile_type) : written8[i].mask # f.mask

\* C1: within one shape family the masks (and so the file names) of the
\* files written so far are pairwise distinct at every point of the pass,
\* and every write is for a mask that was not in the family's used_masks
C1_DedupInvariant == []C1_DistinctMasks /\ [][C1_WriteOnlyUnseen]_vars

\* the straight pass is over, the reversed keys were met and skipped
C1_Witness ==
    /\ pc8 = "done"
    /\ Cardinality(Written8Of("straight")) = 2
    /\ Processed8("straight") = 4

\* C2: first-wins over the fixed iteration order: a candidate that the
\* generator has gone through is in the written files, with its own key,
\* path data and transform, exactly when no earlier candidate of its family
\* has its mask; nothing else is written, files appear in candidate order,
\* and the straight keys written are L2L3-R2R3 and U2U3-D2D3 only
C2_FirstWins ==
    /\ \A t \in {"curve", "sharp", "straight"} :
         \A n \in 1..Processed8(t) :
            LET c == CandidatesOf(t)[n]
                earlier == \E k \in 1..(n - 1) :
                              LayoutMask(CandidatesOf(t)[k].key) = LayoutMask(c.key)
                hits == {i \in Written8Of(t) : written8[i].mask = LayoutMask(c.key)}
            IN  /\ (\E i \in Written8Of(t) :
                       /\ written8[i].key = c.key
                       /\ written8[i].angle = c.angle) <=> ~earlier
                /\ \A i \in hits :
                       LET first == CHOOSE k \in 1..n :
                                       /\ LayoutMask(CandidatesOf(t)[k].key) = LayoutMask(c.key)
                                       /\ \A m \in 1..(k - 1) :
                                            LayoutMask(CandidatesOf(t)[m].key) # LayoutMask(c.key)
                       IN  /\ written8[i].key = CandidatesOf(t)[first].key
                           /\ written8[i].outer = CandidatesOf(t)[first].outer
                           /\ written8[i].inner = CandidatesOf(t)[first].inner
                           /\ written8[i].angle = CandidatesOf(t)[first].angle
                           /\ written8[i].transform = Transform8(CandidatesOf(t)[first].angle)
    /\ \A i \in DOMAIN written8 :
         \E n \in 1..Processed8(written8[i].tile_type) :
            /\ CandidatesOf(written8[i].tile_type)[n].key = written8[i].key
            /\ CandidatesOf(written8[i].tile_type)[n].angle = written8[i].angle
    /\ \A i, j \in DOMAIN written8 :
         (i < j /\ written8[i].tile_type = written8[j].tile_type) =>
            \E n, m \in 1..Processed8(written8[i].tile_type) :
                /\ n < m
                /\ CandidatesOf(written8[i].tile_type)[n].key = written8[i].key
                /\ CandidatesOf(written8[i].tile_type)[m].key = written8[j].key
    /\ {written8[i].key : i \in Written8Of("straight")}
          \subseteq {K("L2L3", "R2R3"), K("U2U3", "D2D3")}
    /\ pc8 = "done" =>
          {written8[i].key : i \in Written8Of("straight")}
              = {K("L2L3", "R2R3"), K("U2U3", "D2D3")}

\* the straight loop has met R2R3-L2L3, whose mask L2L3-R2R3 already took
C2_Witness ==
    /\ pc8 = "straight" /\ base8 = 3
    /\ {written8[i].desc : i \in Written8Of("straight")}
          = {"straight tile, key=L2L3-R2R3, mask=0x48"}

\* C3: a full run of the 8-bit generator writes exactly 34 distinct files,
\* 16 curve, 16 sharp and 2 straight; in the curve and sharp passes every
\* candidate gone through so far has been written (no skip, and no
\* suppression of sharp by the masks of curve)
C3_FileCounts ==
    /\ \A t \in {"curve", "sharp"} :
          /\ Cardinality(Written8Of(t)) = Processed8(t)
          /\ Cardinality({written8[i].mask : i \in Written8Of(t)}) = Processed8(t)
    /\ pc8 = "done" =>
          /\ Len(written8) = 34
          /\ Cardinality({written8[i].fname : i \in DOMAIN written8}) = 34
          /\ Cardinality(Written8Of("curve")) = 16
          /\ Cardinality(Written8Of("sharp")) = 16
          /\ Cardinality(Written8Of("straight")) = 2

C3_Witness == pc8 = "done" /\ Len(written8) = 34

----------------------------------------------------------------------------
(* Claims about the marker generator and the codec functions *)

\* the two hex digits the docstring gives each port's mask
DocMaskHex ==
    ("N0" :> "01") @@ ("N1" :> "02") @@ ("E0" :> "04") @@ ("E1" :> "08") @@
    ("S1" :> "10") @@ ("S0" :> "20") @@ ("W1" :> "40") @@ ("W0" :> "80")

\* the port generate_marker_tiles is to use for an argument
EffectivePort(arg, default) == IF arg \in DOMAIN DocMaskHex THEN arg ELSE default

\* C4: generate_marker_tiles never fails on its port arguments: whatever
\* the two strings, it runs to its return having written exactly two files,
\* road-tile-marker-start-<m1>.svg then road-tile-marker-goal-<m2>.svg, where
\* an unrecognized port is replaced by E0 (start) or W0 (goal) before its
\* mask is computed; defaults and invalid inputs give start-04 and goal-80
C4_MarkerFiles ==
    (call.fn = "generate_marker_tiles") =>
        LET s == EffectivePort(call.start_port, "E0")
            g == EffectivePort(call.goal_port, "W0")
            startName == "road-tile-marker-start-" \o DocMaskHex[s] \o ".svg"
            goalName  == "road-tile-marker-goal-" \o DocMaskHex[g] \o ".svg"
        IN  /\ pcM \in {"validate", "start", "goal", "done"}
            /\ pcM \in {"validate", "start"} => marker_files = <<>>
            /\ pcM = "goal" =>
                  /\ Len(marker_files) = 1
                  /\ marker_files[1].filename = startName
                  /\ marker_files[1].ports = <<s>>
            /\ pcM = "done" =>
                  /\ Len(marker_files) = 2
                  /\ marker_files[1].filename = startName
                  /\ marker_files[2].filename = goalName
                  /\ marker_files[1].ports = <<s>>
                  /\ marker_files[2].ports = <<g>>
                  /\ ret = [start_file |-> startName, goal_file |-> goalName]
            /\ (pcM = "done" /\ call.start_port \notin DOMAIN DocMaskHex) =>
                  marker_files[1].filename = "road-tile-marker-start-04.svg"
            /\ (pcM = "done" /\ call.goal_port \notin DOMAIN DocMaskHex) =>
                  marker_files[2].filename = "road-tile-marker-goal-80.svg"
            /\ (pcM = "done" /\ call.start_port = "E0" /\ call.goal_port = "W0") =>
                  /\ marker_files[1].filename = "road-tile-marker-start-04.svg"
                  /\ marker_files[2].filename = "road-tile-marker-goal-80.svg"

\* --start Z9 with the default goal has produced start-04 and goal-80
C4_Witness ==
    /\ call.fn = "generate_marker_tiles"
    /\ call.start_port = "Z9" /\ call.goal_port = "W0"
    /\ pcM = "done"
    /\ marker_files[1].filename = "road-tile-marker-start-04.svg"
    /\ marker_files[2].filename = "road-tile-marker-goal-80.svg"

UnknownPortIn(ports) == \E i \in DOMAIN ports : ports[i] \notin DOMAIN DocMaskHex

\* C5: computing a mask from a port list that holds an unrecognized name
\* fails with an unknown-port error instead of returning a mask, so that no
\* marker file is written for such a list
C5_UnknownPortFails ==
    /\ (call.fn = "calculate_mask" /\ ret # Pending /\ UnknownPortIn(call.ports))
          => ("mask" \notin DOMAIN ret)
    /\ (call.fn = "generate_marker_tile" /\ ret # Pending /\ UnknownPortIn(call.ports))
          => marker_files = <<>>

\* the delimiter-free runs of a text, by the positions of its delimiters
TokensOf(t) ==
    LET cuts == {0, Len(t) + 1} \cup {i \in DOMAIN t : t[i] = "-"}
    IN  {Text(SubSeq(t, a + 1, b - 1)) :
            <<a, b>> \in {c \in cuts \X cuts :
                            c[1] < c[2] /\ \A d \in cuts : ~(c[1] < d /\ d < c[2])}}

PairNames == {"U1U2", "U2U3", "R1R2", "R2R3", "D2D3", "D1D2", "L2L3", "L1L2"}

\* C6: key_to_mask raises, and returns no mask, for every key with at least
\* one token that is not a recognized pair name, wherever the token sits;
\* the empty key and a leading, trailing or doubled delimiter are such keys
C6_InvalidKeyFails ==
    (call.fn = "key_to_mask" /\ ret # Pending) =>
        LET key == call.key
            failed == "mask" \notin DOMAIN ret /\ ret.raised /\ ret.error = "ValueError"
        IN  /\ (\E tok \in TokensOf(key) : tok \notin PairNames) => failed
            /\ key = <<>> => failed
            /\ (key # <<>> /\ key[1] = "-") => failed
            /\ (key # <<>> /\ key[Len(key)] = "-") => failed
            /\ (\E i \in 1..(Len(key) - 1) : key[i] = "-" /\ key[i + 1] = "-") => failed

\* an unknown token behind two valid ones has made the call raise
C6_Witness ==
    /\ call.fn = "key_to_mask"
    /\ call.key = <<"L2L3", "-", "U1", "U2", "-">>
    /\ ret = [raised |-> TRUE, error |-> "ValueError", pair |-> ""]

PowersOfTwo == {1, 2, 4, 8, 16, 32, 64, 128}

\* C8: PAIR_TO_BIT and PORT_TO_BIT each map their 8 names injectively into
\* 0..7, so a single-port (single-pair) mask is a power of two below 256 and
\* differs from the mask of every other port (pair)
C8_BitsInjective ==
    /\ Cardinality(DOMAIN PAIR_TO_BIT) = 8
    /\ Cardinality(DOMAIN PORT_TO_BIT) = 8
    /\ \A p \in DOMAIN PAIR_TO_BIT : PAIR_TO_BIT[p] \in 0..7
    /\ \A p \in DOMAIN PORT_TO_BIT : PORT_TO_BIT[p] \in 0..7
    /\ \A p, q \in DOMAIN PAIR_TO_BIT : p # q => PAIR_TO_BIT[p] # PAIR_TO_BIT[q]
    /\ \A p, q \in DOMAIN PORT_TO_BIT : p # q => PORT_TO_BIT[p] # PORT_TO_BIT[q]
    /\ (call.fn = "calculate_mask" /\ ret # Pending /\ Len(call.ports) = 1
            /\ call.ports[1] \in DOMAIN PORT_TO_BIT) =>
          /\ ret.mask \in PowersOfTwo
          /\ \A q \in DOMAIN PORT_TO_BIT \ {call.ports[1]} :
                calculate_mask(<<q>>) # ret.mask
    /\ (call.fn = "key_to_mask" /\ ret # Pending /\ Len(call.key) = 1
            /\ call.key[1] \in DOMAIN PAIR_TO_BIT) =>
          /\ ret.mask \in PowersOfTwo
          /\ \A q \in DOMAIN PAIR_TO_BIT \ {call.key[1]} :
                key_to_mask(<<q>>).mask # ret.mask

\* the mask of the single port W0 has been computed
C8_Witness ==
    /\ call.fn = "calculate_mask"
    /\ call.ports = <<"W0">>
    /\ ret = [mask |-> 128]

\* the sum of the bit values of a set of ports
RECURSIVE SetMask(_)
SetMask(S) ==
    IF S = {} THEN 0
    ELSE LET p == CHOOSE x \in S : TRUE
         IN  2 ^ PORT_TO_BIT[p] + SetMask(S \ {p})

Reverse(q) == [i \in 1..Len(q) |-> q[Len(q) + 1 - i]]

\* the text of the key made of the given tokens
RECURSIVE KeyOf(_)
KeyOf(tokens) ==
    IF tokens = <<>> THEN <<>>
    ELSE IF Len(tokens) = 1 THEN <<tokens[1]>>
    ELSE <<tokens[1], "-">> \o KeyOf(Tail(tokens))

\* C9: over valid ports calculate_mask depends only on the set of ports: it
\* is 0 for [], 1 << bit(p) for [p], and unchanged by reordering or repeating
\* ports; key_to_mask gives a key, the key with its tokens reversed and the
\* key with its tokens duplicated the same mask
C9_MaskOfSet ==
    /\ (call.fn = "calculate_mask" /\ ret # Pending /\ ~UnknownPortIn(call.ports)) =>
          LET ports == call.ports IN
          /\ ret.mask = SetMask({ports[i] : i \in DOMAIN ports})
          /\ ports = <<>> => ret.mask = 0
          /\ Len(ports) = 1 => ret.mask = 2 ^ PORT_TO_BIT[ports[1]]
          /\ calculate_mask(Reverse(ports)) = ret.mask
          /\ calculate_mask(ports \o ports) = ret.mask
          /\ \A i \in DOMAIN ports : calculate_mask(Append(ports, ports[i])) = ret.mask
    /\ (call.fn = "key_to_mask" /\ ret # Pending /\ ~ret.raised) =>
          LET tokens == Split(call.key) IN
          /\ key_to_mask(KeyOf(Reverse(tokens))) = ret
          /\ key_to_mask(KeyOf(tokens \o tokens)) = ret
          /\ \A i \in DOMAIN tokens : key_to_mask(KeyOf(Append(tokens, tokens[i]))) = ret

\* a list with a repeated port has been given the mask of its two ports
C9_Witness ==
    /\ call.fn = "calculate_mask"
    /\ call.ports = <<"N0", "E0", "N0">>
    /\ ret = [mask |-> 5]
    /\ calculate_mask(<<"E0", "N0">>) = 5

----------------------------------------------------------------------------
(* Claims about the derivation of the rotation variants *)

FamilyRankK(tile_type) ==
    IF tile_type = "curve" THEN 1
    ELSE IF tile_type = "sharp" THEN 2
    ELSE IF tile_type = "straight" THEN 3
    ELSE 4

\* how many candidates of a family generate.py has gone through
ProcessedK(tile_type) ==
    IF pcK = "off" \/ FamilyRankK(tile_type) > FamilyRankK(pcK) THEN 0
    ELSE IF FamilyRankK(tile_type) < FamilyRankK(pcK) THEN 4 * Len(base_pathsK(tile_type))
    ELSE 4 * (baseK - 1) + idxK

WrittenKOf(tile_type) == {i \in DOMAIN writtenK : writtenK[i].tile_type = tile_type}

\* candidate n of a family (base key ((n-1) div 4) + 1, angle 90 * ((n-1) mod 4))
\* needs a derived key that the table rot does not hold
MissingAt(rot, base_dict, n) ==
    LET base_key == base_dict[((n - 1) \div 4) + 1].key
        a == (n - 1) % 4
    IN  a >= 1 /\ (base_key \notin DOMAIN rot \/ Len(rot[base_key]) < a)

\* the 8-bit generator never gets past a candidate whose derived key is missing
C7_Fails8 ==
    \A t \in {"curve", "sharp"} : \A n \in 1..(4 * Len(base_dict8(t))) :
        MissingAt(rot8, base_dict8(t), n) => Processed8(t) < n

\* generate.py never gets past a candidate whose derived key is missing
C7_FailsK ==
    \A t \in {"curve", "sharp"} : \A n \in 1..(4 * Len(base_pathsK(t))) :
        MissingAt(rotK, base_pathsK(t), n) => ProcessedK(t) < n

\* C7: a base key whose rotation table entry is absent or holds fewer than
\* three derived keys makes generation fail at the angle that needs the
\* missing key: neither generator skips the variant and goes on to later
\* angles and base keys
C7_MissingMappingFails == C7_Fails8 /\ C7_FailsK

\* the variants a generator wrote for one family
Variants8(t) ==
    {[key |-> written8[i].key, angle |-> written8[i].angle,
      outer |-> written8[i].outer, inner |-> written8[i].inner] : i \in Written8Of(t)}

VariantsK(t) ==
    {[key |-> writtenK[i].key, angle |-> writtenK[i].angle,
      outer |-> writtenK[i].path_outer, inner |-> writtenK[i].path_inner] : i \in WrittenKOf(t)}

\* each variant, matched to its base entry by its path data, has the base
\* key at angle 0 and the table's entry 1, 2, 3 (Python 0, 1, 2) at 90, 180, 270
C10_KeysByPosition(variants, base_dict, rot) ==
    \A v \in variants :
        \E b \in DOMAIN base_dict :
            /\ v.outer = base_dict[b].outer
            /\ v.inner = base_dict[b].inner
            /\ v.angle \in {0, 90, 180, 270}
            /\ v.angle = 0 => v.key = base_dict[b].key
            /\ v.angle = 90 => v.key = rot[base_dict[b].key][1]
            /\ v.angle = 180 => v.key = rot[base_dict[b].key][2]
            /\ v.angle = 270 => v.key = rot[base_dict[b].key][3]

\* C10: for every curve and sharp base key the variants are derived in the
\* order 0, 90, 180, 270; the angle-0 variant has the base key itself, also
\* when the rotation table holds no entry for it, and the variants at 90,
\* 180 and 270 have the table's entries at positions 0, 1 and 2
C10_VariantKeys ==
    /\ \A t \in {"curve", "sharp"} :
        /\ C10_KeysByPosition(Variants8(t), base_dict8(t), rot8)
        /\ C10_KeysByPosition(VariantsK(t), base_pathsK(t), rotK)
        \* every candidate gone through whose key exists has its file
        /\ \A n \in 1..Processed8(t) :
              \E i \in Written8Of(t) :
                 /\ written8[i].outer = base_dict8(t)[((n - 1) \div 4) + 1].outer
                 /\ written8[i].angle = 90 * ((n - 1) % 4)
                 /\ written8[i].transform = Transform8(ANGLES[((n - 1) % 4) + 1])
        /\ \A n \in 1..ProcessedK(t) :
              ~MissingAt(rotK, base_pathsK(t), n) =>
                 \E i \in WrittenKOf(t) :
                    /\ writtenK[i].path_outer = base_pathsK(t)[((n - 1) \div 4) + 1].outer
                    /\ writtenK[i].angle = 90 * ((n - 1) % 4)
        \* in the order 0, 90, 180, 270 within a base key
        /\ \A i, j \in Written8Of(t) :
              (i < j /\ written8[i].outer = written8[j].outer)
                  => written8[i].angle < written8[j].angle
        /\ \A i, j \in WrittenKOf(t) :
              (i < j /\ writtenK[i].path_outer = writtenK[j].path_outer)
                  => writtenK[i].angle < writtenK[j].angle

\* the table lacks a base key: its angle-0 variant was written all the same,
\* after the 270 variant of the base key before it, taken from position 2
C10_Witness ==
    \E i, j \in DOMAIN written8 :
        /\ i < j
        /\ written8[i].angle = 270
        /\ written8[i].key = K("L1L2", "U1U2")
        /\ written8[j].angle = 0
        /\ written8[j].key = K("U1U2", "R2R3")
        /\ written8[j].key \notin DOMAIN rot8

----------------------------------------------------------------------------
(* Claims about the geometry of the rotated variants *)

\* rotate(90, 20, 20) of SVG on a point: (x, y) goes to (40 - y, x)
Rotate90(p) == <<40 - p[2], p[1]>>

\* rotate(angle, 20, 20) for a multiple of 90
RECURSIVE RotateBy(_, _)
RotateBy(p, angle) == IF angle = 0 THEN p ELSE RotateBy(Rotate90(p), angle - 90)

Min2(a, b) == IF a <= b THEN a ELSE b
Max2(a, b) == IF a <= b THEN b ELSE a

\* the port pair whose stretch of the border has the ends p and q: U pairs
\* lie on the top edge (y = 0), D pairs on the bottom edge (y = 40), R pairs
\* on the right edge (x = 40), L pairs on the left edge (x = 0), each over
\* the range pair_range_map gives it; "none" if no pair has these ends
PairBetween(p, q) ==
    LET fits == {n \in DOMAIN pair_range_map :
                    LET r == pair_range_map[n] IN
                    \/ /\ FirstChar(n) = "U" /\ p[2] = 0 /\ q[2] = 0 /\ r.axis = "X"
                       /\ r.lo = Min2(p[1], q[1]) /\ r.hi = Max2(p[1], q[1])
                    \/ /\ FirstChar(n) = "D" /\ p[2] = 40 /\ q[2] = 40 /\ r.axis = "X"
                       /\ r.lo = Min2(p[1], q[1]) /\ r.hi = Max2(p[1], q[1])
                    \/ /\ FirstChar(n) = "R" /\ p[1] = 40 /\ q[1] = 40 /\ r.axis = "Y"
                       /\ r.lo = Min2(p[2], q[2]) /\ r.hi = Max2(p[2], q[2])
                    \/ /\ FirstChar(n) = "L" /\ p[1] = 0 /\ q[1] = 0 /\ r.axis = "Y"
                       /\ r.lo = Min2(p[2], q[2]) /\ r.hi = Max2(p[2], q[2])}
    IN  IF Cardinality(fits) = 1 THEN CHOOSE n \in fits : TRUE ELSE "none"

\* the two port pairs the lane of a rendered file touches: the pair between
\* the rotated first points of its outer and inner paths, and the pair
\* between their rotated last points
TouchedPairs(outer, inner, angle) ==
    {PairBetween(RotateBy(PathEnds(outer)[1], angle), RotateBy(PathEnds(inner)[1], angle)),
     PairBetween(RotateBy(PathEnds(outer)[2], angle), RotateBy(PathEnds(inner)[2], angle))}

\* the mask of a set of port pairs, by the bit layout the scripts document
RECURSIVE PairsMask(_)
PairsMask(S) ==
    IF S = {} THEN 0
    ELSE LET n == CHOOSE x \in S : TRUE
         IN  (IF n = "none" THEN 0 ELSE LayoutMask(<<n, "-", n>>)) + PairsMask(S \ {n})

\* the unrotated files (angle 0, the straight files included) touch exactly
\* the pairs their key names, and their mask is the mask of those pairs
C11_BaseOrientation ==
    /\ \A i \in DOMAIN written8 :
          written8[i].angle = 0 =>
             /\ TouchedPairs(written8[i].outer, written8[i].inner, 0)
                   = {written8[i].key[1], written8[i].key[3]}
             /\ written8[i].mask
                   = PairsMask(TouchedPairs(written8[i].outer, written8[i].inner, 0))
    /\ \A i \in DOMAIN writtenK :
          writtenK[i].angle = 0 =>
             TouchedPairs(writtenK[i].path_outer, writtenK[i].path_inner, 0)
                = {writtenK[i].key[1], writtenK[i].key[3]}

\* C11: for every curve and sharp base key and every angle in 90, 180, 270
\* the border endpoints of the base outer and inner paths, taken through
\* rotate(angle, 20, 20), lie exactly on the two port pairs the derived key
\* names (pairs located by pair_range_map on the top, right, bottom and
\* left edge); so the mask in the name of an emitted file is the mask of
\* the ports its rendered geometry touches
C11_RotatedGeometryMatchesKey ==
    /\ \A i \in DOMAIN written8 :
          (written8[i].tile_type \in {"curve", "sharp"} /\ written8[i].angle # 0) =>
             LET touched == TouchedPairs(written8[i].outer, written8[i].inner,
                                         written8[i].angle)
             IN  /\ touched = {written8[i].key[1], written8[i].key[3]}
                 /\ "none" \notin touched
                 /\ written8[i].mask = PairsMask(touched)
    /\ \A i \in DOMAIN writtenK :
          (writtenK[i].tile_type \in {"curve", "sharp"} /\ writtenK[i].angle # 0) =>
             TouchedPairs(writtenK[i].path_outer, writtenK[i].path_inner, writtenK[i].angle)
                = {writtenK[i].key[1], writtenK[i].key[3]}

----------------------------------------------------------------------------
(* Claims relating the two road-tile generators *)

\* the identifier the 8-bit generator gives a file of generate.py: its
\* family and the mask of its key
MaskIdK(i) == <<writtenK[i].tile_type, key_to_mask(writtenK[i].key).mask>>

\* the first file of generate.py, in generation order, with the identifier id
FirstKWith(id) ==
    CHOOSE i \in DOMAIN writtenK :
        /\ MaskIdK(i) = id
        /\ \A j \in 1..(i - 1) : MaskIdK(j) # id

\* C12: the two road-tile generators agree up to naming: generate.py writes
\* 36 files (16 curve, 16 sharp, 4 straight), and replacing each of its file
\* keys by key_to_mask(key) gives exactly the 34 identifiers the 8-bit
\* generator writes for the same family; each mask-named file has the outer
\* and inner path data and the rotate transform of the first key-named
\* file, in generation order, whose key maps to that mask
C12_GeneratorsAgree ==
    /\ \A i \in DOMAIN writtenK : ~key_to_mask(writtenK[i].key).raised
    /\ pcK \in {"check", "done"} =>
          /\ Len(writtenK) = 36
          /\ generated_files_count = 36
          /\ Cardinality({writtenK[i].filename : i \in DOMAIN writtenK}) = 36
          /\ Cardinality(WrittenKOf("curve")) = 16
          /\ Cardinality(WrittenKOf("sharp")) = 16
          /\ Cardinality(WrittenKOf("straight")) = 4
    /\ (pcK \in {"check", "done"} /\ pc8 = "done") =>
          /\ {MaskIdK(i) : i \in DOMAIN writtenK}
                = {<<written8[i].tile_type, written8[i].mask>> : i \in DOMAIN written8}
          /\ Cardinality({MaskIdK(i) : i \in DOMAIN writtenK}) = 34
          /\ {"road-tile-" \o MaskIdK(i)[1] \o "-" \o Format02X(MaskIdK(i)[2]) \o ".svg" :
                 i \in DOMAIN writtenK}
                = {written8[i].fname : i \in DOMAIN written8}
    /\ \A i \in DOMAIN written8 :
          LET id == <<written8[i].tile_type, written8[i].mask>> IN
          (\E j \in DOMAIN writtenK : MaskIdK(j) = id) =>
             LET k == writtenK[FirstKWith(id)]
             IN  /\ k.path_outer = written8[i].outer
                 /\ k.path_inner = written8[i].inner
                 /\ k.transform_attr = written8[i].transform
                 /\ k.key = written8[i].key
                 /\ k.angle = written8[i].angle

\* both generators have run to their end, over 36 and 34 files, and a
\* mask-named straight file stands for two key-named ones
C12_Witness ==
    /\ pc8 = "done" /\ pcK = "done"
    /\ Len(writtenK) = 36 /\ Len(written8) = 34
    /\ \E i \in DOMAIN written8 :
          Cardinality({j \in DOMAIN writtenK :
                          MaskIdK(j) = <<written8[i].tile_type, written8[i].mask>>}) = 2

====
